---- MODULE Spec2Model ----
(***************************************************************************)
(* Observability and liveness monitoring of the attendance services:       *)
(* start-up readiness probe and health endpoint (app1, app2), request      *)
(* instrumentation, operation timer, connection gauge and system sampler   *)
(* (app1).                                                                 *)
(***************************************************************************)
EXTENDS Integers, Sequences, FiniteSets, TLC

\* ------------------------------------------------------------------------
\* Bounds of the model
\* ------------------------------------------------------------------------
MaxRetries == 5
MaxDelay == 2
MaxConns == 3
MaxConnEvents == 4
MaxCycles == 4
NThreads == 2
MaxRequests == 2
CounterThreads == 3
MaxIncrements == 2

\* ------------------------------------------------------------------------
\* Start-up: wait_for_database, __main__, health_check
\* ------------------------------------------------------------------------
VARIABLES
    max_retries,   \* wait_for_database parameter (app2)
    delay,         \* wait_for_database parameter (app2)
    attempt,       \* loop variable of wait_for_database (app2)
    attemptLog,    \* outcome of every db.engine.connect() made by the probe
    sleeps,        \* number of time.sleep(delay) calls made by the probe
    elapsed,       \* time slept by the probe
    ret,           \* per app: what wait_for_database returned
    mainPc,        \* per app: position of __main__
    healthQuery,   \* per app: outcome of the last SELECT 1 of health_check
    healthResp     \* per app: last response of health_check

startupVars == <<max_retries, delay, attempt, attemptLog, sleeps, elapsed,
                 ret, mainPc, healthQuery, healthResp>>

VARIABLES
    dbConnectionCount,  \* DB_CONNECTION_COUNT gauge (app1)
    connState,          \* per connection: "new", "open" or "closed"
    opens,              \* connect events delivered
    closes,             \* disconnect events delivered
    dupCloses,          \* disconnect events for a connection not open
    active_db_connections \* last value custom_metrics reported (-1: none)

connVars == <<dbConnectionCount, connState, opens, closes, dupCloses,
              active_db_connections>>

VARIABLES
    samplerPc,      \* position of update_system_metrics in its loop
    sleepFor,       \* argument of the time.sleep the sampler is in (0: none)
    cycleFailed,    \* whether a read of the current cycle raised
    cycles,         \* cycles finished
    clock,          \* time elapsed in the sampler thread
    cycleStart,     \* clock at the start of the current cycle
    prevCycleStart, \* clock at the start of the cycle before (-1: none)
    gaugesSet       \* gauge groups set by the current cycle

samplerVars == <<samplerPc, sleepFor, cycleFailed, cycles, clock, cycleStart,
                 prevCycleStart, gaugesSet>>

VARIABLES
    reqPc,           \* per thread: position in the request lifecycle
    req,             \* per thread: the request (endpoint, method, start_time)
    status,          \* per thread: response.status_code (0: no response)
    started,         \* requests started so far
    fOutcome,        \* per thread: what the wrapped create_absensi did
    callerSees,      \* per thread: what wrapper gave its caller
    wrappedCalls,    \* calls made through monitor_db_operation's wrapper
    inProgress,      \* REQUEST_IN_PROGRESS by endpoint label
    latencyCount,    \* REQUEST_LATENCY observation count by labels
    requestCount,    \* REQUEST_COUNT by labels
    errorCount,      \* ERROR_COUNT by labels
    dbLatencyCount,  \* DB_OPERATION_LATENCY observation count by labels
    completed,       \* requests after_request has returned the response of
    scriptPos        \* next request of the end-to-end scenario

reqVars == <<reqPc, req, status, started, fOutcome, callerSees, wrappedCalls,
             inProgress, latencyCount, requestCount, errorCount,
             dbLatencyCount, completed, scriptPos>>

VARIABLES
    ctrPc,      \* per worker: position inside REQUEST_COUNT...inc()
    ctrLock,    \* the lock of the counter's value (0: free, else the holder)
    ctrValue,   \* the value of one REQUEST_COUNT series
    ctrLoaded,  \* per worker: the value it loaded for the addition
    incsDone    \* per worker: inc() calls completed

ctrVars == <<ctrPc, ctrLock, ctrValue, ctrLoaded, incsDone>>

vars == <<startupVars, connVars, samplerVars, reqVars, ctrVars>>

notStartup == <<connVars, samplerVars, reqVars, ctrVars>>
notConn == <<startupVars, samplerVars, reqVars, ctrVars>>
notSampler == <<startupVars, connVars, reqVars, ctrVars>>
notReq == <<startupVars, connVars, samplerVars, ctrVars>>
notCtr == <<startupVars, connVars, samplerVars, reqVars>>

Apps == {"app1", "app2"}

NoResp == [code |-> 0, status |-> "none", unhandled |-> FALSE]

\* for attempt in range(1, max_retries + 1)
InRangeOffByOne(a, m) == a <= m + 1
InRange(a, m) == a <= m

\* time.sleep(delay): the elapsed time after the sleep
SleptNothing(e, d) == e
Slept(e, d) == e + d

\* body of the loop: try: connect -> return True / except: warn, sleep
AttemptOutcomeNoReturn(ok) ==
    [pc |-> "sleep", ret |-> "running"]
AttemptOutcomeRetryNow(ok) ==
    IF ok THEN [pc |-> "returned", ret |-> "True"]
          ELSE [pc |-> "attempt", ret |-> "running"]
AttemptOutcomeSleepAlways(ok) ==
    IF ok THEN [pc |-> "sleep", ret |-> "True"]
          ELSE [pc |-> "sleep", ret |-> "running"]
AttemptOutcome(ok) ==
    IF ok THEN [pc |-> "returned", ret |-> "True"]
          ELSE [pc |-> "sleep", ret |-> "running"]

\* the state of the readiness probe's state machine, from the return value
ProbeState(a) ==
    CASE ret[a] = "True" -> "Connected"
      [] ret[a] = "False" -> "Failed"
      [] OTHER -> "Pending"

\* health_check: try: SELECT 1 -> 200 healthy / except Exception -> 500
health_checkAlwaysHealthy(queryOk) ==
    [code |-> 200, status |-> "healthy", unhandled |-> FALSE]
health_check(queryOk) ==
    IF queryOk
    THEN [code |-> 200, status |-> "healthy", unhandled |-> FALSE]
    ELSE [code |-> 500, status |-> "unhealthy", unhandled |-> FALSE]

\* wait_for_database(max_retries, delay) is called: the for loop is entered
WaitForDatabaseEnter ==
    /\ mainPc["app2"] = "start"
    /\ \E r \in 0..MaxRetries, d \in 1..MaxDelay :
        /\ max_retries' = r
        /\ delay' = d
        /\ mainPc' = [mainPc EXCEPT !["app2"] =
                        IF InRange(1, r) THEN "attempt" ELSE "loop_end"]
    /\ attempt' = 1
    /\ UNCHANGED <<attemptLog, sleeps, elapsed, ret, healthQuery, healthResp>>
    /\ UNCHANGED notStartup

\* one connection attempt: db.engine.connect() succeeds or raises
ConnectAttempt ==
    /\ mainPc["app2"] = "attempt"
    /\ \E ok \in BOOLEAN :
        /\ attemptLog' = Append(attemptLog, ok)
        /\ ret' = [ret EXCEPT !["app2"] = AttemptOutcome(ok).ret]
        /\ mainPc' = [mainPc EXCEPT !["app2"] = AttemptOutcome(ok).pc]
    /\ UNCHANGED <<max_retries, delay, attempt, sleeps, elapsed,
                   healthQuery, healthResp>>
    /\ UNCHANGED notStartup

\* except branch: time.sleep(delay), then the next iteration of the loop
SleepDelay ==
    /\ mainPc["app2"] = "sleep"
    /\ sleeps' = sleeps + 1
    /\ elapsed' = Slept(elapsed, delay)
    /\ attempt' = attempt + 1
    /\ mainPc' = [mainPc EXCEPT !["app2"] =
                    IF InRange(attempt + 1, max_retries) THEN "attempt"
                                                         ELSE "loop_end"]
    /\ UNCHANGED <<max_retries, delay, attemptLog, ret, healthQuery, healthResp>>
    /\ UNCHANGED notStartup

\* after the loop: logger.error(...); return False
ReturnFalse ==
    /\ mainPc["app2"] = "loop_end"
    /\ ret' = [ret EXCEPT !["app2"] = "False"]
    /\ mainPc' = [mainPc EXCEPT !["app2"] = "returned"]
    /\ UNCHANGED <<max_retries, delay, attempt, attemptLog, sleeps, elapsed,
                   healthQuery, healthResp>>
    /\ UNCHANGED notStartup

\* app2 __main__: if wait_for_database(): create_tables() ... else: exit(1)
MainBranch ==
    /\ mainPc["app2"] = "returned"
    /\ mainPc' = [mainPc EXCEPT !["app2"] =
                    IF ret["app2"] = "True" THEN "create_tables" ELSE "exited"]
    /\ UNCHANGED <<max_retries, delay, attempt, attemptLog, sleeps, elapsed,
                   ret, healthQuery, healthResp>>
    /\ UNCHANGED notStartup

\* create_tables: db.create_all() succeeds, or the error is re-raised
CreateTables ==
    /\ mainPc["app2"] = "create_tables"
    /\ \E ok \in BOOLEAN :
        mainPc' = [mainPc EXCEPT !["app2"] = IF ok THEN "run" ELSE "crashed"]
    /\ UNCHANGED <<max_retries, delay, attempt, attemptLog, sleeps, elapsed,
                   ret, healthQuery, healthResp>>
    /\ UNCHANGED notStartup

\* app1 __main__: wait_for_database() is a stub (pass) and returns None
WaitForDatabaseStub ==
    /\ mainPc["app1"] = "start"
    /\ ret' = [ret EXCEPT !["app1"] = "None"]
    /\ mainPc' = [mainPc EXCEPT !["app1"] = "run"]
    /\ UNCHANGED <<max_retries, delay, attempt, attemptLog, sleeps, elapsed,
                   healthQuery, healthResp>>
    /\ UNCHANGED notStartup

\* app.run(...): the service begins serving requests
AppRun(a) ==
    /\ mainPc[a] = "run"
    /\ mainPc' = [mainPc EXCEPT ![a] = "serving"]
    /\ UNCHANGED <<max_retries, delay, attempt, attemptLog, sleeps, elapsed,
                   ret, healthQuery, healthResp>>
    /\ UNCHANGED notStartup

\* GET /health on a serving app
HealthCheck(a) ==
    /\ mainPc[a] = "serving"
    /\ \E ok \in BOOLEAN :
        /\ healthQuery' = [healthQuery EXCEPT ![a] = ok]
        /\ healthResp' = [healthResp EXCEPT ![a] = health_check(ok)]
    /\ UNCHANGED <<max_retries, delay, attempt, attemptLog, sleeps, elapsed,
                   ret, mainPc>>
    /\ UNCHANGED notStartup

\* wait_for_database(max_retries=5, delay=5): the defaults
default_max_retries == 5
default_delay == 5

NextStartup ==
    \/ WaitForDatabaseEnter
    \/ ConnectAttempt
    \/ SleepDelay
    \/ ReturnFalse
    \/ MainBranch
    \/ CreateTables
    \/ WaitForDatabaseStub
    \/ \E a \in Apps : AppRun(a)
    \/ \E a \in Apps : HealthCheck(a)

\* ------------------------------------------------------------------------
\* Connection gauge: receive_connect, receive_disconnect (app1)
\* ------------------------------------------------------------------------
Conns == 1..MaxConns

\* DB_CONNECTION_COUNT.inc()
receive_connect(g) == g + 1

\* DB_CONNECTION_COUNT.dec()
receive_disconnectIgnored(g) == g
receive_disconnect(g) == g - 1

\* the engine opens connection c: the 'connect' event fires
ConnectionOpen(c) ==
    /\ connState[c] # "open"
    /\ opens < MaxConnEvents
    /\ connState' = [connState EXCEPT ![c] = "open"]
    /\ opens' = opens + 1
    /\ dbConnectionCount' = receive_connect(dbConnectionCount)
    /\ UNCHANGED <<closes, dupCloses, active_db_connections>>
    /\ UNCHANGED notConn

\* the engine closes connection c: the 'disconnect' event fires
ConnectionClose(c) ==
    /\ connState[c] = "open"
    /\ closes < MaxConnEvents
    /\ connState' = [connState EXCEPT ![c] = "closed"]
    /\ closes' = closes + 1
    /\ dbConnectionCount' = receive_disconnect(dbConnectionCount)
    /\ UNCHANGED <<opens, dupCloses, active_db_connections>>
    /\ UNCHANGED notConn

\* a second 'disconnect' notification for a connection already closed
DuplicateClose(c) ==
    /\ connState[c] = "closed"
    /\ closes < MaxConnEvents
    /\ closes' = closes + 1
    /\ dbConnectionCount' = receive_disconnect(dbConnectionCount)
    /\ dupCloses' = dupCloses + 1
    /\ UNCHANGED <<connState, opens, active_db_connections>>
    /\ UNCHANGED notConn

\* GET /metrics/custom: DB_CONNECTION_COUNT._value.get() is read
CustomMetrics ==
    /\ active_db_connections' = dbConnectionCount
    /\ UNCHANGED <<dbConnectionCount, connState, opens, closes, dupCloses>>
    /\ UNCHANGED notConn

NextConn ==
    \/ \E c \in Conns : ConnectionOpen(c)
    \/ \E c \in Conns : ConnectionClose(c)
    \/ \E c \in Conns : DuplicateClose(c)
    \/ CustomMetrics

\* ------------------------------------------------------------------------
\* System sampler: update_system_metrics (app1)
\* ------------------------------------------------------------------------
\* psutil.cpu_percent(interval=1, ...) blocks for the interval
cpu_interval == 1
\* time.sleep(5) at the end of the try block
sample_interval == 5
\* time.sleep(1) in the except block
retry_interval == 1

\* except Exception as e: logger.error(...); time.sleep(1)
OnSampleErrorUncaught == [pc |-> "terminated", sleepFor |-> 0]
OnSampleError == [pc |-> "sleep", sleepFor |-> retry_interval]

\* end of the try block: time.sleep(5)
OnSampleDone == [pc |-> "sleep", sleepFor |-> sample_interval]

\* CPU metrics: read per-core utilisation, set one gauge per core
ReadCpu ==
    /\ samplerPc = "cpu"
    /\ \/ /\ clock' = clock + cpu_interval
          /\ gaugesSet' = {"cpu"}
          /\ samplerPc' = "memory"
          /\ UNCHANGED <<sleepFor, cycleFailed>>
       \/ /\ \E d \in {0, cpu_interval} : clock' = clock + d
          /\ gaugesSet' = {}
          /\ samplerPc' = OnSampleError.pc
          /\ sleepFor' = OnSampleError.sleepFor
          /\ cycleFailed' = TRUE
    /\ UNCHANGED <<cycles, cycleStart, prevCycleStart>>
    /\ UNCHANGED notSampler

\* memory metrics: read virtual memory, set five gauges
ReadMemory ==
    /\ samplerPc = "memory"
    /\ \/ /\ gaugesSet' = gaugesSet \cup {"memory"}
          /\ samplerPc' = "disk"
          /\ UNCHANGED <<sleepFor, cycleFailed>>
       \/ /\ samplerPc' = OnSampleError.pc
          /\ sleepFor' = OnSampleError.sleepFor
          /\ cycleFailed' = TRUE
          /\ UNCHANGED gaugesSet
    /\ UNCHANGED <<cycles, clock, cycleStart, prevCycleStart>>
    /\ UNCHANGED notSampler

\* disk metrics: read usage of '/', set four gauges; then time.sleep(5)
ReadDisk ==
    /\ samplerPc = "disk"
    /\ \/ /\ gaugesSet' = gaugesSet \cup {"disk"}
          /\ samplerPc' = OnSampleDone.pc
          /\ sleepFor' = OnSampleDone.sleepFor
          /\ UNCHANGED cycleFailed
       \/ /\ samplerPc' = OnSampleError.pc
          /\ sleepFor' = OnSampleError.sleepFor
          /\ cycleFailed' = TRUE
          /\ UNCHANGED gaugesSet
    /\ UNCHANGED <<cycles, clock, cycleStart, prevCycleStart>>
    /\ UNCHANGED notSampler

\* the sleep returns and while True starts the next cycle
SleepReturns ==
    /\ samplerPc = "sleep"
    /\ cycles < MaxCycles
    /\ clock' = clock + sleepFor
    /\ cycles' = cycles + 1
    /\ prevCycleStart' = cycleStart
    /\ cycleStart' = clock + sleepFor
    /\ samplerPc' = "cpu"
    /\ sleepFor' = 0
    /\ cycleFailed' = FALSE
    /\ UNCHANGED gaugesSet
    /\ UNCHANGED notSampler

NextSampler ==
    \/ ReadCpu
    \/ ReadMemory
    \/ ReadDisk
    \/ SleepReturns

\* ------------------------------------------------------------------------
\* Request instrumentation and operation timer (app1)
\* ------------------------------------------------------------------------
Threads == 1..NThreads

\* request.endpoint is None (<<>>) or the name of the matched view (<<name>>)
None == <<>>

\* the routes: '/' -> index, POST '/absensi' -> the function returned by
\* monitor_db_operation, which is named "wrapper", GET '/absensi' ->
\* get_absensi, PUT '/absensi/<id>' -> update_absensi; no rule takes DELETE,
\* and any other URL matches no rule
Routes ==
    { [endpoint |-> <<"index">>, method |-> "GET"],
      [endpoint |-> <<"wrapper">>, method |-> "POST"],
      [endpoint |-> <<"get_absensi">>, method |-> "GET"],
      [endpoint |-> <<"update_absensi">>, method |-> "PUT"],
      [endpoint |-> None, method |-> "DELETE"],
      [endpoint |-> None, method |-> "GET"] }

RawEndpoints == {r.endpoint : r \in Routes}

Return(v) == [kind |-> "return", value |-> v]
Raise(e) == [kind |-> "raise", value |-> e]
NoOutcome == [kind |-> "none", value |-> 0]

\* what the view function of an endpoint can do
create_absensi == { Return(201), Return(400),
                    Raise("SQLAlchemyError"), Raise("BadRequest") }
get_absensi == { Return(200), Return(500) }
index == { Return(200), Raise("TemplateNotFound") }
update_absensi == { Return(200), Return(404), Return(500) }

\* no rule matched: the URL exists for other methods only, or not at all
no_route(m) == IF m = "DELETE" THEN { Raise("MethodNotAllowed") }
                               ELSE { Raise("NotFound") }

\* service='absensi'
service == "absensi"

\* str() of a label value, as prometheus_client's labels() applies it
StrEndpoint(e) == IF e = None THEN "None" ELSE e[1]
StrStatus(c) ==
    CASE c = 200 -> "200" [] c = 201 -> "201" [] c = 400 -> "400"
      [] c = 404 -> "404" [] c = 405 -> "405" [] c = 500 -> "500"

EndpointLabels == {"index", "wrapper", "get_absensi", "update_absensi",
                   "None", "unknown"}
Methods == {"GET", "POST", "PUT", "DELETE"}
StatusCodes == {200, 201, 400, 404, 405, 500}
StatusLabels == {StrStatus(c) : c \in StatusCodes}
ErrorTypes == {"http_" \o l : l \in StatusLabels} \cup {"database_error"}

\* monitor_db_operation.wrapper around f: what the caller gets, whether
\* DB_OPERATION_LATENCY is observed, whether ERROR_COUNT is incremented
wrapperSwallows(f) ==
    IF f.kind = "return"
    THEN [caller |-> Return(f.value), observed |-> TRUE, counted |-> FALSE]
    ELSE [caller |-> Return(0), observed |-> FALSE, counted |-> TRUE]
wrapper(f) ==
    IF f.kind = "return"
    THEN [caller |-> Return(f.value), observed |-> TRUE, counted |-> FALSE]
    ELSE [caller |-> Raise(f.value), observed |-> FALSE, counted |-> TRUE]

\* app.run(debug=True, ...)
debug == TRUE

HTTPExceptions == {"BadRequest", "NotFound", "MethodNotAllowed"}
HttpCode(e) ==
    CASE e = "BadRequest" -> 400
      [] e = "NotFound" -> 404
      [] e = "MethodNotAllowed" -> 405

\* what the framework does with the outcome of the view: a response goes
\* through after_request; an HTTP exception becomes its response; any other
\* exception is re-raised in debug mode (after_request does not run) and
\* becomes a 500 response otherwise
flask_dispatch(o) ==
    IF o.kind = "return" THEN [after |-> TRUE, status |-> o.value]
    ELSE IF o.value \in HTTPExceptions
         THEN [after |-> TRUE, status |-> HttpCode(o.value)]
    ELSE IF debug THEN [after |-> FALSE, status |-> 0]
    ELSE [after |-> TRUE, status |-> 500]

NoRequest == [endpoint |-> None, method |-> "GET", start_time |-> FALSE]

Inc(f, k) == [f EXCEPT ![k] = @ + 1]
Dec(f, k) == [f EXCEPT ![k] = @ - 1]

\* REQUEST_COUNT.labels(endpoint=..., method=..., status_code=..., service=...)
CountLabelsNoStatus(e, m, c) == <<StrEndpoint(e), m, "200", service>>
CountLabels(e, m, c) == <<StrEndpoint(e), m, StrStatus(c), service>>

\* ERROR_COUNT.labels(endpoint=..., error_type=f'http_{status_code}', service=...)
ErrorLabels(e, c) == <<StrEndpoint(e), "http_" \o StrStatus(c), service>>

\* if response.status_code >= 400
is_errorAbove400(c) == c > 400
is_error(c) == c >= 400

\* monitor_db_operation decorates create_absensi only: the one series of
\* DB_OPERATION_LATENCY is (create, absensi)
Operations == {"create", "read", "update", "delete"}
db_operation_latency(op) == IF op = "create" THEN dbLatencyCount ELSE 0

\* the end-to-end scenario: POST, GET, PUT, DELETE on the record routes
scenario ==
    << [endpoint |-> <<"wrapper">>, method |-> "POST"],
       [endpoint |-> <<"get_absensi">>, method |-> "GET"],
       [endpoint |-> <<"update_absensi">>, method |-> "PUT"],
       [endpoint |-> None, method |-> "DELETE"] >>

\* before_request for request r on thread t
before_request(t, r) ==
    /\ req' = [req EXCEPT ![t] = [endpoint |-> r.endpoint,
                                  method |-> r.method,
                                  start_time |-> TRUE]]
    /\ inProgress' = IF r.endpoint # None
                     THEN Inc(inProgress, StrEndpoint(r.endpoint))
                     ELSE inProgress
    /\ reqPc' = [reqPc EXCEPT ![t] = "dispatch"]
    /\ status' = [status EXCEPT ![t] = 0]
    /\ fOutcome' = [fOutcome EXCEPT ![t] = NoOutcome]
    /\ callerSees' = [callerSees EXCEPT ![t] = NoOutcome]

\* a request arrives on thread t; before_request runs
RequestStart(t) ==
    /\ reqPc[t] = "idle"
    /\ started < MaxRequests
    /\ started' = started + 1
    /\ \E r \in Routes : before_request(t, r)
    /\ UNCHANGED <<wrappedCalls, latencyCount, requestCount, errorCount,
                   dbLatencyCount, completed, scriptPos>>
    /\ UNCHANGED notReq

\* the next request of the end-to-end scenario arrives, on thread 1, after
\* the one before it is over
ScenarioRequest ==
    /\ reqPc[1] = "idle"
    /\ scriptPos <= Len(scenario)
    /\ scriptPos' = scriptPos + 1
    /\ before_request(1, scenario[scriptPos])
    /\ UNCHANGED <<started, wrappedCalls, latencyCount, requestCount,
                   errorCount, dbLatencyCount, completed>>
    /\ UNCHANGED notReq

\* the view of an ordinary route runs and the framework takes its outcome
DispatchView(t) ==
    /\ reqPc[t] = "dispatch"
    /\ req[t].endpoint # <<"wrapper">>
    /\ \E o \in (CASE req[t].endpoint = <<"index">> -> index
                   [] req[t].endpoint = <<"get_absensi">> -> get_absensi
                   [] req[t].endpoint = <<"update_absensi">> -> update_absensi
                   [] OTHER -> no_route(req[t].method)) :
        /\ status' = [status EXCEPT ![t] = flask_dispatch(o).status]
        /\ reqPc' = [reqPc EXCEPT ![t] =
                IF flask_dispatch(o).after THEN "after_request" ELSE "propagated"]
    /\ UNCHANGED <<req, started, fOutcome, callerSees, wrappedCalls, inProgress,
                   latencyCount, requestCount, errorCount, dbLatencyCount,
                   completed, scriptPos>>
    /\ UNCHANGED notReq

\* POST /absensi: create_absensi runs inside monitor_db_operation's wrapper
DispatchWrapped(t) ==
    /\ reqPc[t] = "dispatch"
    /\ req[t].endpoint = <<"wrapper">>
    /\ wrappedCalls' = wrappedCalls + 1
    /\ \E f \in create_absensi :
        /\ fOutcome' = [fOutcome EXCEPT ![t] = f]
        /\ callerSees' = [callerSees EXCEPT ![t] = wrapper(f).caller]
        /\ dbLatencyCount' = IF wrapper(f).observed THEN dbLatencyCount + 1
                                                    ELSE dbLatencyCount
        /\ errorCount' = IF wrapper(f).counted
                THEN Inc(errorCount,
                         <<StrEndpoint(req[t].endpoint), "database_error",
                           service>>)
                ELSE errorCount
        /\ status' = [status EXCEPT ![t] =
                        flask_dispatch(wrapper(f).caller).status]
        /\ reqPc' = [reqPc EXCEPT ![t] =
                IF flask_dispatch(wrapper(f).caller).after THEN "after_request"
                                                           ELSE "propagated"]
    /\ UNCHANGED <<req, started, inProgress, latencyCount, requestCount,
                   completed, scriptPos>>
    /\ UNCHANGED notReq

\* after_request: the in-progress gauge is decremented
AfterDec(t) ==
    /\ reqPc[t] = "after_request"
    /\ inProgress' = IF req[t].endpoint # None
                     THEN Dec(inProgress, StrEndpoint(req[t].endpoint))
                     ELSE inProgress
    /\ reqPc' = [reqPc EXCEPT ![t] = "after_latency"]
    /\ UNCHANGED <<req, status, started, fOutcome, callerSees, wrappedCalls,
                   latencyCount, requestCount, errorCount, dbLatencyCount,
                   completed, scriptPos>>
    /\ UNCHANGED notReq

\* after_request: the latency is observed
AfterLatency(t) ==
    /\ reqPc[t] = "after_latency"
    /\ latencyCount' = IF req[t].start_time
            THEN Inc(latencyCount,
                     <<StrEndpoint(req[t].endpoint), req[t].method, service>>)
            ELSE latencyCount
    /\ reqPc' = [reqPc EXCEPT ![t] = "after_count"]
    /\ UNCHANGED <<req, status, started, fOutcome, callerSees, wrappedCalls,
                   inProgress, requestCount, errorCount, dbLatencyCount,
                   completed, scriptPos>>
    /\ UNCHANGED notReq

\* after_request: the total-requests counter is incremented
AfterCount(t) ==
    /\ reqPc[t] = "after_count"
    /\ requestCount' = Inc(requestCount,
            CountLabels(req[t].endpoint, req[t].method, status[t]))
    /\ reqPc' = [reqPc EXCEPT ![t] = "after_error"]
    /\ UNCHANGED <<req, status, started, fOutcome, callerSees, wrappedCalls,
                   inProgress, latencyCount, errorCount, dbLatencyCount,
                   completed, scriptPos>>
    /\ UNCHANGED notReq

\* after_request: the error counter is incremented for a status >= 400,
\* and the response is returned
AfterError(t) ==
    /\ reqPc[t] = "after_error"
    /\ errorCount' = IF is_error(status[t])
            THEN Inc(errorCount, ErrorLabels(req[t].endpoint, status[t]))
            ELSE errorCount
    /\ completed' = Inc(completed,
                        <<req[t].endpoint, req[t].method, status[t]>>)
    /\ reqPc' = [reqPc EXCEPT ![t] = "idle"]
    /\ UNCHANGED <<req, status, started, fOutcome, callerSees, wrappedCalls,
                   inProgress, latencyCount, requestCount, dbLatencyCount,
                   scriptPos>>
    /\ UNCHANGED notReq

\* the exception of the view left the application: the request is over
\* without after_request having run
RequestPropagated(t) ==
    /\ reqPc[t] = "propagated"
    /\ reqPc' = [reqPc EXCEPT ![t] = "idle"]
    /\ UNCHANGED <<req, status, started, fOutcome, callerSees, wrappedCalls,
                   inProgress, latencyCount, requestCount, errorCount,
                   dbLatencyCount, completed, scriptPos>>
    /\ UNCHANGED notReq

NextReq ==
    \/ \E t \in Threads : RequestStart(t)
    \/ \E t \in Threads : DispatchView(t)
    \/ \E t \in Threads : DispatchWrapped(t)
    \/ \E t \in Threads : AfterDec(t)
    \/ \E t \in Threads : AfterLatency(t)
    \/ \E t \in Threads : AfterCount(t)
    \/ \E t \in Threads : AfterError(t)
    \/ \E t \in Threads : RequestPropagated(t)

\* the end-to-end scenario: the four requests one after the other
NextE2E ==
    \/ ScenarioRequest
    \/ \E t \in Threads : DispatchView(t)
    \/ \E t \in Threads : DispatchWrapped(t)
    \/ \E t \in Threads : AfterDec(t)
    \/ \E t \in Threads : AfterLatency(t)
    \/ \E t \in Threads : AfterCount(t)
    \/ \E t \in Threads : AfterError(t)
    \/ \E t \in Threads : RequestPropagated(t)

\* ------------------------------------------------------------------------
\* Concurrent increments of one REQUEST_COUNT series from after_request
\* ------------------------------------------------------------------------
Workers == 1..CounterThreads

\* inc() adds to the value while holding the value's lock
CanAcquireUnlocked(t) == TRUE
CanAcquire(t) == ctrLock = 0

\* a request of worker t reaches REQUEST_COUNT.labels(...).inc(): lock taken
IncAcquire(t) ==
    /\ ctrPc[t] = "call"
    /\ incsDone[t] < MaxIncrements
    /\ CanAcquire(t)
    /\ ctrLock' = t
    /\ ctrPc' = [ctrPc EXCEPT ![t] = "load"]
    /\ UNCHANGED <<ctrValue, ctrLoaded, incsDone>>
    /\ UNCHANGED notCtr

\* value += 1: the current value is loaded
IncLoad(t) ==
    /\ ctrPc[t] = "load"
    /\ ctrLoaded' = [ctrLoaded EXCEPT ![t] = ctrValue]
    /\ ctrPc' = [ctrPc EXCEPT ![t] = "store"]
    /\ UNCHANGED <<ctrLock, ctrValue, incsDone>>
    /\ UNCHANGED notCtr

\* value += 1: the sum is stored
IncStore(t) ==
    /\ ctrPc[t] = "store"
    /\ ctrValue' = ctrLoaded[t] + 1
    /\ ctrPc' = [ctrPc EXCEPT ![t] = "release"]
    /\ UNCHANGED <<ctrLock, ctrLoaded, incsDone>>
    /\ UNCHANGED notCtr

\* the lock is released and inc() returns
IncRelease(t) ==
    /\ ctrPc[t] = "release"
    /\ ctrLock' = 0
    /\ incsDone' = [incsDone EXCEPT ![t] = @ + 1]
    /\ ctrPc' = [ctrPc EXCEPT ![t] = "call"]
    /\ UNCHANGED <<ctrValue, ctrLoaded>>
    /\ UNCHANGED notCtr

NextCtr ==
    \/ \E t \in Workers : IncAcquire(t)
    \/ \E t \in Workers : IncLoad(t)
    \/ \E t \in Workers : IncStore(t)
    \/ \E t \in Workers : IncRelease(t)

\* ------------------------------------------------------------------------
\* Specifications
\* ------------------------------------------------------------------------
\* the state of the processes before __main__ runs and before any request,
\* connection event or sample
Init ==
    /\ max_retries = default_max_retries
    /\ delay = default_delay
    /\ attempt = 0
    /\ attemptLog = <<>>
    /\ sleeps = 0
    /\ elapsed = 0
    /\ ret = [a \in Apps |-> "running"]
    /\ mainPc = [a \in Apps |-> "start"]
    /\ healthQuery = [a \in Apps |-> FALSE]
    /\ healthResp = [a \in Apps |-> NoResp]
    /\ dbConnectionCount = 0
    /\ connState = [c \in Conns |-> "new"]
    /\ opens = 0
    /\ closes = 0
    /\ dupCloses = 0
    /\ active_db_connections = -1
    /\ samplerPc = "cpu"
    /\ sleepFor = 0
    /\ cycleFailed = FALSE
    /\ cycles = 0
    /\ clock = 0
    /\ cycleStart = 0
    /\ prevCycleStart = -1
    /\ gaugesSet = {}
    /\ reqPc = [t \in Threads |-> "idle"]
    /\ req = [t \in Threads |-> NoRequest]
    /\ status = [t \in Threads |-> 0]
    /\ started = 0
    /\ fOutcome = [t \in Threads |-> NoOutcome]
    /\ callerSees = [t \in Threads |-> NoOutcome]
    /\ wrappedCalls = 0
    /\ inProgress = [e \in EndpointLabels |-> 0]
    /\ latencyCount = [l \in EndpointLabels \X Methods \X {service} |-> 0]
    /\ requestCount =
            [l \in EndpointLabels \X Methods \X StatusLabels \X {service} |-> 0]
    /\ errorCount = [l \in EndpointLabels \X ErrorTypes \X {service} |-> 0]
    /\ dbLatencyCount = 0
    /\ completed = [l \in RawEndpoints \X Methods \X StatusCodes |-> 0]
    /\ scriptPos = 1
    /\ ctrPc = [t \in Workers |-> "call"]
    /\ ctrLock = 0
    /\ ctrValue = 0
    /\ ctrLoaded = [t \in Workers |-> 0]
    /\ incsDone = [t \in Workers |-> 0]

SpecStartup == Init /\ [][NextStartup]_vars

\* wait_for_database is sequential code: the call is made, each connection
\* attempt returns, each sleep returns and the loop exit is taken
SpecStartupFair ==
    /\ Init /\ [][NextStartup]_vars
    /\ WF_vars(WaitForDatabaseEnter)
    /\ WF_vars(ConnectAttempt)
    /\ WF_vars(SleepDelay)
    /\ WF_vars(ReturnFalse)

SpecConn == Init /\ [][NextConn]_vars

SpecSampler == Init /\ [][NextSampler]_vars

SpecReq == Init /\ [][NextReq]_vars

SpecE2E == Init /\ [][NextE2E]_vars

SpecCtr == Init /\ [][NextCtr]_vars

\* the whole system: all the processes and threads side by side
Next ==
    NextStartup \/ NextConn \/ NextSampler \/ NextReq \/ NextE2E \/ NextCtr

Spec == Init /\ [][Next]_vars

\* ------------------------------------------------------------------------
\* Properties
\* ------------------------------------------------------------------------
AllFailed(log) == \A i \in DOMAIN log : ~log[i]

\* the store failed the first k attempts and then succeeded
FailedFirst(k) ==
    /\ Len(attemptLog) = k + 1
    /\ \A i \in 1..k : ~attemptLog[i]
    /\ attemptLog[k + 1]

ProbeReturned == ret["app2"] \in {"True", "False"}

\* C1: against a store whose every connection attempt fails, the probe
\* ends Failed after exactly max_retries attempts and never makes more
\* than max_retries attempts, for every max_retries >= 1.
C1_FailedAfterExactlyMaxRetries ==
    max_retries >= 1 =>
        /\ Len(attemptLog) <= max_retries
        /\ (ProbeReturned /\ AllFailed(attemptLog)) =>
                ProbeState("app2") = "Failed"
        /\ ProbeState("app2") = "Failed" =>
                (Len(attemptLog) = max_retries /\ AllFailed(attemptLog))

C1_Witness ==
    /\ max_retries >= 2
    /\ ProbeState("app2") = "Failed"
    /\ Len(attemptLog) = max_retries
    /\ mainPc["app2"] = "exited"

\* C2: against a store that fails the first k attempts and then succeeds,
\* k < max_retries, the probe is Connected after exactly k+1 attempts, and
\* once Connected it makes no further attempt.
C2_ConnectedAfterKPlusOne ==
    /\ [](\A k \in 0..(max_retries - 1) :
            FailedFirst(k) => ProbeState("app2") = "Connected")
    /\ [](ProbeState("app2") = "Connected" =>
            \E k \in 0..(max_retries - 1) : FailedFirst(k))
    /\ [][ProbeState("app2") = "Connected" =>
            (attemptLog' = attemptLog /\ ret'["app2"] = "True")]_vars

C2_Witness ==
    /\ FailedFirst(2)
    /\ ProbeState("app2") = "Connected"
    /\ mainPc["app2"] = "serving"

\* C3: the service never serves requests unless the readiness probe has
\* succeeded; in particular not when the probe ended Failed.
C3_NoServingUnlessConnected ==
    \A a \in Apps : mainPc[a] = "serving" => ProbeState(a) = "Connected"

\* C5: the connection gauge is never negative, whatever the sequence of
\* connection-open and connection-close events.
C5_GaugeNeverNegative == dbConnectionCount >= 0

SamplerAlive == samplerPc \in {"cpu", "memory", "disk", "sleep"}

\* C9: the sampler never terminates on a failed sample: a cycle with a
\* failed read waits the retry interval, a cycle without one waits the
\* normal interval, and after either wait another cycle starts.
C9_SamplerNeverTerminates ==
    /\ [](SamplerAlive /\ (cycles < MaxCycles => ENABLED NextSampler))
    /\ [](samplerPc = "sleep" =>
            sleepFor = IF cycleFailed THEN retry_interval ELSE sample_interval)
    /\ [][samplerPc = "sleep" =>
            (samplerPc' = "cpu" /\ ~cycleFailed' /\ cycles' = cycles + 1)]_vars

C9_Witness ==
    /\ samplerPc = "sleep"
    /\ ~cycleFailed
    /\ sleepFor = sample_interval
    /\ cycles >= 1
    /\ cycleStart - prevCycleStart <= cpu_interval + retry_interval

\* C10: the health endpoint answers from the round-trip query made at
\* request time: 200 healthy when it succeeds, 500 unhealthy when it
\* fails, whatever the readiness probe returned, and never raises.
C10_HealthFromRoundTrip ==
    \A a \in Apps :
        healthResp[a] # NoResp =>
            /\ ~healthResp[a].unhandled
            /\ healthQuery[a] =>
                 (healthResp[a].code = 200 /\ healthResp[a].status = "healthy")
            /\ ~healthQuery[a] =>
                 (healthResp[a].code = 500 /\ healthResp[a].status = "unhealthy")

C10_Witness ==
    /\ ProbeState("app1") # "Connected"
    /\ healthResp["app1"].code = 200
    /\ ProbeState("app2") = "Connected"
    /\ healthResp["app2"].code = 500

Quiescent == \A t \in Threads : reqPc[t] = "idle"

\* C4: after every request, including one whose handler throws an
\* unhandled exception, the in-progress gauge of the endpoint is back at
\* its pre-request value: with no request in flight every gauge is 0.
C4_GaugeRestoredAfterRequest ==
    Quiescent => \A e \in EndpointLabels : inProgress[e] = 0

AllIncrementsDone == \A t \in Workers : incsDone[t] = MaxIncrements

\* C6: when N threads each increment the same counter M times, in any
\* interleaving, no increment is lost: the final value is N*M.
C6_NoLostIncrement ==
    AllIncrementsDone => ctrValue = CounterThreads * MaxIncrements

C6_Witness ==
    /\ AllIncrementsDone
    /\ ctrValue = CounterThreads * MaxIncrements
    /\ ctrLock = 0

\* C7: the operation timer is transparent: the caller of the wrapper sees
\* the return value or the error of the wrapped operation, unchanged.
C7_TimerTransparent ==
    \A t \in Threads : callerSees[t] = fOutcome[t]

C7_Witness ==
    \E t \in Threads :
        /\ fOutcome[t] = Raise("SQLAlchemyError")
        /\ callerSees[t] = Raise("SQLAlchemyError")
        /\ errorCount[<<"wrapper", "database_error", service>>] = 1

\* C8: every call through the operation timer records exactly one
\* observation in the (operation, table) latency distribution, whether the
\* operation returns or raises.
C8_OneObservationPerCall == dbLatencyCount = wrappedCalls

Failures(log) == Cardinality({i \in DOMAIN log : ~log[i]})

\* C12: the probe never blocks its caller for ever: it returns Connected
\* or Failed, after at most max_retries attempts and max_retries delays.
C12_ProbeTerminates ==
    /\ <>ProbeReturned
    /\ [](Len(attemptLog) <= max_retries /\ sleeps <= max_retries)

C12_Witness ==
    /\ ProbeReturned
    /\ max_retries >= 2
    /\ sleeps = max_retries
    /\ Len(attemptLog) = max_retries

\* C13 as stated: a store that fails the first 2 attempts and then
\* succeeds is Connected in under 2 * delay of slept time.
C13_UnderTwoDelays ==
    FailedFirst(2) => elapsed < 2 * delay

\* C13 as amended: a store that fails the first 2 attempts and then
\* succeeds is Connected after exactly 2 * delay of slept time (one delay
\* after each failed attempt), not less.
C13_ExactlyTwoDelays ==
    FailedFirst(2) => (ProbeState("app2") = "Connected" /\ elapsed = 2 * delay)

C13_Witness ==
    /\ FailedFirst(2)
    /\ delay = 2
    /\ elapsed = 4
    /\ ProbeState("app2") = "Connected"

\* C20: the probe sleeps the delay after every failed attempt, the last
\* one included: the delays slept equal the failed attempts, Failed is
\* returned only after max_retries delays, and no delay follows a success.
C20_SleepAfterEveryFailure ==
    /\ sleeps = Failures(attemptLog) - (IF mainPc["app2"] = "sleep" THEN 1 ELSE 0)
    /\ elapsed = sleeps * delay
    /\ ProbeState("app2") = "Failed" => sleeps = max_retries
    /\ ProbeState("app2") = "Connected" => sleeps = Len(attemptLog) - 1

C20_Witness ==
    /\ ProbeState("app2") = "Failed"
    /\ max_retries >= 2
    /\ sleeps = max_retries
    /\ elapsed = max_retries * delay
    /\ mainPc["app2"] = "returned"

\* C17: with no failed read, the starts of two consecutive sample cycles
\* are exactly the sample interval (5) apart.
C17_FixedInterval ==
    [][(samplerPc = "sleep" /\ ~cycleFailed /\ samplerPc' = "cpu") =>
            cycleStart' - cycleStart = sample_interval]_vars

OpenConns == {c \in Conns : connState[c] = "open"}

\* C18: as long as every close event follows its own open, the connection
\* gauge equals opens minus closes, the number of connections now open,
\* and only connect and disconnect events change the gauge.
C18_GaugeCountsOpenConnections ==
    /\ [](dupCloses = 0 =>
            /\ dbConnectionCount = opens - closes
            /\ dbConnectionCount = Cardinality(OpenConns))
    /\ [][dbConnectionCount' # dbConnectionCount =>
            (opens' # opens \/ closes' # closes)]_vars

C18_Witness ==
    /\ dupCloses = 0
    /\ opens = 3
    /\ closes = 1
    /\ dbConnectionCount = 2
    /\ active_db_connections = 2

RECURSIVE SumSet(_, _)
SumSet(f, S) ==
    IF S = {} THEN 0
    ELSE LET x == CHOOSE y \in S : TRUE IN f[x] + SumSet(f, S \ {x})

\* the threads whose request has been counted and whose response is not
\* returned yet
Counting(e, m, c) ==
    {t \in Threads : /\ reqPc[t] = "after_error"
                     /\ req[t].endpoint = e
                     /\ req[t].method = m
                     /\ status[t] = c}

RawRequests == RawEndpoints \X Methods \X StatusCodes

\* the series of the total-requests counter that are not zero
CountedSeries == {k \in DOMAIN requestCount : requestCount[k] > 0}

\* the requests that have been counted
CountedRequests ==
    {r \in RawRequests : completed[r] > 0 \/ Counting(r[1], r[2], r[3]) # {}}

ScenarioDone == scriptPos > Len(scenario) /\ reqPc[1] = "idle"

\* C11: after POST, GET, PUT and DELETE through the instrumented handlers
\* the total-requests counter sums to 4 over four distinct status-code
\* labels and the per-operation latency distribution holds one observation
\* for each of create, read, update and delete.
C11_EndToEnd ==
    ScenarioDone =>
        /\ SumSet(requestCount, CountedSeries) = 4
        /\ Cardinality({l[3] : l \in CountedSeries}) = 4
        /\ \A op \in Operations : db_operation_latency(op) = 1

\* C14: every request that reaches request end increments the
\* total-requests counter exactly once, on the series of its endpoint,
\* method, status code and service; no other series of the counter changes.
C14_CountedOnceOnItsSeries ==
    /\ \A r \in CountedRequests :
            requestCount[CountLabels(r[1], r[2], r[3])] =
                completed[r] + Cardinality(Counting(r[1], r[2], r[3]))
    /\ CountedSeries =
            {CountLabels(r[1], r[2], r[3]) : r \in CountedRequests}

C14_Witness ==
    /\ Quiescent
    /\ completed[<<None, "GET", 404>>] = 1
    /\ completed[<<(<<"wrapper">>), "POST", 201>>] = 1
    /\ requestCount[<<"None", "GET", "404", service>>] = 1
    /\ requestCount[<<"wrapper", "POST", "201", service>>] = 1

CompletedWith(e, c) == SumSet(completed, {<<e, m, c>> : m \in Methods})

\* C15: at request end the error series (endpoint, http_<status>, service)
\* is incremented by one if and only if the status code is >= 400; a
\* status below 400 leaves every http_* series unchanged.
C15_ErrorCountedFrom400 ==
    \A e \in RawEndpoints, c \in StatusCodes :
        errorCount[ErrorLabels(e, c)] =
            IF c >= 400 THEN CompletedWith(e, c) ELSE 0

C15_Witness ==
    /\ Quiescent
    /\ completed[<<(<<"wrapper">>), "POST", 400>>] = 1
    /\ completed[<<(<<"index">>), "GET", 200>>] = 1
    /\ errorCount[<<"wrapper", "http_400", service>>] = 1
    /\ errorCount[<<"index", "http_200", service>>] = 0

\* C16: a request with no resolved endpoint is recorded, in the latency,
\* total-requests and error metrics, under the endpoint label "unknown".
C16_UnknownEndpointLabel ==
    Quiescent =>
        \A m \in Methods, c \in StatusCodes :
            /\ requestCount[<<"unknown", m, StrStatus(c), service>>] =
                    completed[<<None, m, c>>]
            /\ errorCount[<<"unknown", "http_" \o StrStatus(c), service>>] >=
                    completed[<<None, m, c>>]
            /\ latencyCount[<<"unknown", m, service>>] >=
                    completed[<<None, m, c>>]

\* the threads whose request has passed request start and is not over
InFlight(e) ==
    {t \in Threads : /\ reqPc[t] \in {"dispatch", "after_request", "propagated"}
                     /\ req[t].endpoint = e}

\* C19: the in-progress gauge of every resolved endpoint equals the number
\* of requests to it that have passed request start and not request end,
\* so it is never negative; a request without a resolved endpoint changes
\* no gauge.
C19_GaugeCountsInFlight ==
    /\ \A e \in RawEndpoints \ {None} :
            inProgress[StrEndpoint(e)] = Cardinality(InFlight(e))
    /\ inProgress["None"] = 0
    /\ inProgress["unknown"] = 0
    /\ \A l \in EndpointLabels : inProgress[l] >= 0

====
